---- MODULE Spec2Model ----
(***************************************************************************)
(* State-machine model of src/search_scene_nodes.py: the SearchSceneNodes  *)
(* dialog (a QDialog) and the part of the Maya host it talks to            *)
(* (cmds.ls, cmds.objExists, cmds.select).                                 *)
(*                                                                         *)
(* Strings that the code takes apart (node names, the search text) are     *)
(* tuples of one-character strings, so that str.lower() and the substring  *)
(* test `in` are computed rather than assumed.  Node type names are only   *)
(* ever compared for equality and stay TLA+ strings.                       *)
(***************************************************************************)
EXTENDS Integers, Sequences, FiniteSets, TLC

(***************************************************************************)
(* Bounds of the model.                                                    *)
(***************************************************************************)
\* how many nodes of NodeTable the host scene may hold
MaxNodes == 2
\* how many texts of SearchTexts the user may type in the search field
MaxSearch == 2
\* cap of the counter of constructed dialogs (show_ui never reaches it)
MaxConstructed == 2

(***************************************************************************)
(* The host: Maya's scene.                                                 *)
(***************************************************************************)
pCube1      == <<"p", "C", "u", "b", "e", "1">>
pCube1Shape == <<"p", "C", "u", "b", "e", "1", "S", "h", "a", "p", "e">>
joint1      == <<"j", "o", "i", "n", "t", "1">>
CUBE2       == <<"C", "U", "B", "E", "2">>
lampShape   == <<"l", "a", "m", "p", "S", "h", "a", "p", "e">>

\* The nodes the scene can hold, in the order the host lists them.
NodeTable ==
    << [name |-> pCube1,      type |-> "transform", shape |-> FALSE],
       [name |-> pCube1Shape, type |-> "mesh",      shape |-> TRUE],
       [name |-> joint1,      type |-> "joint",     shape |-> FALSE],
       [name |-> CUBE2,       type |-> "transform", shape |-> FALSE],
       [name |-> lampShape,   type |-> "mesh",      shape |-> TRUE] >>

Min(a, b) == IF a < b THEN a ELSE b

NodeIds == 1..Min(MaxNodes, Len(NodeTable))

NodeNames == {NodeTable[i].name : i \in NodeIds}

\* The texts the user types in the search field.
SearchTexts ==
    << <<>>,
       <<"S", "H", "A", "P", "E">>,
       <<"c", "u", "b", "e">>,
       <<"C", "u", "b", "e", "1">>,
       <<"j">> >>

SearchSet == {SearchTexts[i] : i \in 1..Min(MaxSearch, Len(SearchTexts))}

VARIABLES
    sceneObjs,            \* host: names of the nodes that exist in the scene
    selection,            \* host: the active selection, a list of names
    ui_instance,          \* SearchSceneNodes.ui_instance: "None" or "dialog"
    constructed,          \* how many times SearchSceneNodes() has run
    hidden,               \* QWidget.isHidden() of the dialog
    scene_nodes,          \* self.scene_nodes
    search_le,            \* self.search_le.text()
    no_shapes_checkbox,   \* self.no_shapes_checkbox.isChecked()
    cbIndex,              \* self.nodetype_cb.currentIndex()
    cbText,               \* self.nodetype_cb.currentText()
    last_sel_node_type,   \* self.last_sel_node_type
    display_nodes_lw,     \* items of self.display_nodes_lw
    selectedItems,        \* highlighted rows of self.display_nodes_lw
    lastOp,               \* the callback or host change that ran last;
                          \* "retext" when setCurrentIndex kept the index
    selectCalls,          \* calls of cmds.select made by the last callback
    snapshot,             \* history: result of the most recent cmds.ls()
    beforeEnable,         \* history: the list shown before exclude was enabled
    phase                 \* history: 1 after enabling, 2 after the disable next

host    == <<sceneObjs, selection>>
dialog  == <<scene_nodes, search_le, no_shapes_checkbox, cbIndex, cbText,
             last_sel_node_type, display_nodes_lw, selectedItems>>
history == <<snapshot, beforeEnable, phase>>
vars    == <<sceneObjs, selection, ui_instance, constructed, hidden,
             scene_nodes, search_le, no_shapes_checkbox, cbIndex, cbText,
             last_sel_node_type, display_nodes_lw, selectedItems, lastOp,
             selectCalls, snapshot, beforeEnable, phase>>

(***************************************************************************)
(* Strings.                                                                *)
(***************************************************************************)
UpperCase == <<"A", "B", "C", "D", "E", "F", "G", "H", "I", "J", "K", "L", "M",
               "N", "O", "P", "Q", "R", "S", "T", "U", "V", "W", "X", "Y", "Z">>
LowerCase == <<"a", "b", "c", "d", "e", "f", "g", "h", "i", "j", "k", "l", "m",
               "n", "o", "p", "q", "r", "s", "t", "u", "v", "w", "x", "y", "z">>

\* one character of str.lower()
LowerChar(c) ==
    IF \E k \in 1..Len(UpperCase) : UpperCase[k] = c
    THEN LowerCase[CHOOSE k \in 1..Len(UpperCase) : UpperCase[k] = c]
    ELSE c

\* str.lower()
lower(s) == [k \in 1..Len(s) |-> LowerChar(s[k])]

\* Python's `sub in s` on strings
In(sub, s) ==
    \E off \in 0..(Len(s) - Len(sub)) :
        \A k \in 1..Len(sub) : s[off + k] = sub[k]

(***************************************************************************)
(* Host queries.                                                           *)
(***************************************************************************)
\* the names of S in the order the host lists its nodes
RECURSIVE InHostOrder(_, _)
InHostOrder(i, S) ==
    IF i > Len(NodeTable) THEN <<>>
    ELSE (IF NodeTable[i].name \in S THEN <<NodeTable[i].name>> ELSE <<>>)
         \o InHostOrder(i + 1, S)

NodeOf(name) == NodeTable[CHOOSE i \in NodeIds : NodeTable[i].name = name]

\* cmds.ls()
Ls == InHostOrder(1, sceneObjs)

\* cmds.ls(type=node_type)
LsType(node_type) ==
    InHostOrder(1, {n \in sceneObjs : NodeOf(n).type = node_type})

\* cmds.ls(shapes=True)
LsShapes == InHostOrder(1, {n \in sceneObjs : NodeOf(n).shape})

\* cmds.objExists(name)
objExists(name) == name \in sceneObjs

Range(s) == {s[k] : k \in 1..Len(s)}

(***************************************************************************)
(* Class attributes.                                                       *)
(***************************************************************************)
NO_NODETYPE == ""
ALL_NODETYPES == <<"transform", "mesh", "joint">>
NODETYPES_DISPLAY == <<NO_NODETYPE>> \o ALL_NODETYPES

\* self.nodetype_cb.itemText(index), index counted from 0
itemText(index) == NODETYPES_DISPLAY[index + 1]

ComboIndexes == 0..(Len(NODETYPES_DISPLAY) - 1)

(***************************************************************************)
(* Initial state: the module is imported, no dialog has been built yet.    *)
(* The dialog's fields hold placeholders until SearchSceneNodes() runs.    *)
(***************************************************************************)
Init ==
    /\ sceneObjs \in SUBSET NodeNames
    /\ selection = <<>>
    /\ ui_instance = "None"
    /\ constructed = 0
    /\ hidden = TRUE
    /\ scene_nodes = <<>>
    /\ search_le = <<>>
    /\ no_shapes_checkbox = FALSE
    /\ cbIndex = 0
    /\ cbText = NO_NODETYPE
    /\ last_sel_node_type = NO_NODETYPE
    /\ display_nodes_lw = <<>>
    /\ selectedItems = {}
    /\ lastOp = "none"
    /\ selectCalls = 0
    /\ snapshot = <<>>
    /\ beforeEnable = <<>>
    /\ phase = 0

(***************************************************************************)
(* Helpers of the callbacks.                                               *)
(***************************************************************************)
\* filter_string in node, the letter case not folded
MatchesFilterCaseSensitive(filter_string, node) == In(filter_string, node)

\* filter_string.lower() in node.lower()
MatchesFilter(filter_string, node) == In(lower(filter_string), lower(node))

\* the list update_display_nodes puts in the list widget
DisplayNodes(nodes_in, filter_string, isChecked) ==
    LET nodes == SelectSeq(nodes_in, LAMBDA node : MatchesFilter(filter_string, node))
        scene_shapes == LsShapes
    IN  IF isChecked
        THEN SelectSeq(nodes, LAMBDA node : node \notin Range(scene_shapes))
        ELSE nodes

\* [item.text() for item in selectedItems()], by row
RECURSIVE RowTexts(_, _)
RowTexts(k, rows) ==
    IF k > Len(display_nodes_lw) THEN <<>>
    ELSE (IF k \in rows THEN <<display_nodes_lw[k]>> ELSE <<>>)
         \o RowTexts(k + 1, rows)

\* the argument item_selection_changed hands to cmds.select
SelectArg(rows) == SelectSeq(RowTexts(1, rows), objExists)

\* update_display_nodes(): the list widget is cleared and refilled from the
\* new values of scene_nodes, the search text and the check box.  Clearing
\* the widget drops its highlight; when there was one, itemSelectionChanged
\* fires and item_selection_changed calls cmds.select([]).
update_display_nodes ==
    /\ display_nodes_lw' =
           DisplayNodes(scene_nodes', search_le', no_shapes_checkbox')
    /\ selectedItems' = {}
    /\ selection' = IF selectedItems = {} THEN selection ELSE <<>>
    /\ selectCalls' = IF selectedItems = {} THEN 0 ELSE 1

\* filter_node_type(node_type) without the refresh of the list
filter_node_type_no_refresh(node_type) ==
    /\ scene_nodes' = IF node_type = itemText(0) THEN Ls ELSE LsType(node_type)
    /\ snapshot' = IF node_type = itemText(0) THEN Ls ELSE snapshot
    /\ UNCHANGED <<display_nodes_lw, selectedItems, selection>>
    /\ selectCalls' = 0
    /\ last_sel_node_type' = node_type

\* filter_node_type(node_type) that skips the query when the type is the
\* one it applied last
filter_node_type_cached(node_type) ==
    /\ scene_nodes' = IF node_type = last_sel_node_type THEN scene_nodes
                      ELSE IF node_type = itemText(0) THEN Ls
                      ELSE LsType(node_type)
    /\ snapshot' = IF node_type = itemText(0) /\ node_type # last_sel_node_type
                   THEN Ls ELSE snapshot
    /\ update_display_nodes
    /\ last_sel_node_type' = node_type

\* filter_node_type(node_type); search_le' and no_shapes_checkbox' are set
\* by the caller
filter_node_type(node_type) ==
    /\ scene_nodes' = IF node_type = itemText(0) THEN Ls ELSE LsType(node_type)
    /\ snapshot' = IF node_type = itemText(0) THEN Ls ELSE snapshot
    /\ update_display_nodes
    /\ last_sel_node_type' = node_type

\* reload_scene_nodes() that re-applies the recorded last type
reload_last_sel_node_type == filter_node_type(last_sel_node_type)

\* reload_scene_nodes()
reload_scene_nodes == filter_node_type(cbText')

\* update_node_type(index)
update_node_type(index) == filter_node_type(itemText(index))

\* SearchSceneNodes.__init__
init ==
    /\ scene_nodes' = Ls
    /\ snapshot' = Ls
    /\ search_le' = <<>>
    /\ no_shapes_checkbox' = FALSE
    /\ cbIndex' = 0
    /\ cbText' = itemText(0)
    /\ last_sel_node_type' = NO_NODETYPE
    /\ update_display_nodes
    /\ constructed' = constructed + 1

ClearHistory == beforeEnable' = <<>> /\ phase' = 0

Visible == ui_instance # "None" /\ ~hidden

(***************************************************************************)
(* Host scene changes, made by the user outside the dialog.                *)
(***************************************************************************)
HostStep ==
    /\ UNCHANGED <<ui_instance, constructed, hidden, dialog, history>>
    /\ lastOp' = "host"
    /\ selectCalls' = 0

CreateNode(n) ==
    /\ n \notin sceneObjs
    /\ sceneObjs' = sceneObjs \cup {n}
    /\ UNCHANGED selection
    /\ HostStep

\* a deleted node leaves the active selection
DeleteNode(n) ==
    /\ n \in sceneObjs
    /\ sceneObjs' = sceneObjs \ {n}
    /\ selection' = SelectSeq(selection, LAMBDA m : m # n)
    /\ HostStep

(***************************************************************************)
(* Opening and closing the dialog.                                         *)
(***************************************************************************)
\* show_ui() that builds a new dialog whenever none is on screen
show_ui_rebuild ==
    /\ UNCHANGED sceneObjs
    /\ ClearHistory
    /\ IF ui_instance = "None" \/ hidden
       THEN /\ constructed < MaxConstructed
            /\ init
            /\ ui_instance' = "dialog"
            /\ hidden' = FALSE
            /\ lastOp' = "construct"
       ELSE /\ UNCHANGED <<ui_instance, constructed, hidden, dialog, snapshot,
                           selection>>
            /\ selectCalls' = 0
            /\ lastOp' = "raise"

\* show_ui() that reloads the scene nodes when it shows a hidden dialog
show_ui_refresh ==
    /\ UNCHANGED sceneObjs
    /\ ClearHistory
    /\ IF ui_instance = "None"
       THEN /\ constructed < MaxConstructed
            /\ init
            /\ ui_instance' = "dialog"
            /\ hidden' = FALSE
            /\ lastOp' = "construct"
       ELSE /\ UNCHANGED <<ui_instance, constructed>>
            /\ IF hidden
               THEN /\ hidden' = FALSE
                    /\ UNCHANGED <<search_le, no_shapes_checkbox, cbIndex, cbText>>
                    /\ reload_scene_nodes
                    /\ lastOp' = "show"
               ELSE /\ UNCHANGED <<hidden, dialog, snapshot, selection>>
                    /\ selectCalls' = 0
                    /\ lastOp' = "raise"

\* SearchSceneNodes.show_ui(); a dialog that was never shown isHidden()
show_ui ==
    /\ UNCHANGED sceneObjs
    /\ ClearHistory
    /\ IF ui_instance = "None"
       THEN /\ constructed < MaxConstructed
            /\ init
            /\ ui_instance' = "dialog"
            /\ hidden' = FALSE
            /\ lastOp' = "construct"
       ELSE /\ UNCHANGED <<ui_instance, constructed, dialog, snapshot, selection>>
            /\ selectCalls' = 0
            /\ IF hidden
               THEN hidden' = FALSE /\ lastOp' = "show"
               ELSE UNCHANGED hidden /\ lastOp' = "raise"

\* the user closes the dialog: QDialog hides, the instance stays
CloseDialog ==
    /\ Visible
    /\ hidden' = TRUE
    /\ UNCHANGED <<host, ui_instance, constructed, dialog, snapshot>>
    /\ ClearHistory
    /\ selectCalls' = 0
    /\ lastOp' = "hide"

(***************************************************************************)
(* The callbacks connected in create_connections.                          *)
(***************************************************************************)
\* search_le.textChanged that narrows self.scene_nodes to the matches
textChanged_narrowing(text) ==
    /\ Visible
    /\ text # search_le
    /\ search_le' = text
    /\ scene_nodes' = SelectSeq(scene_nodes, LAMBDA node : MatchesFilter(text, node))
    /\ UNCHANGED <<sceneObjs, ui_instance, constructed, hidden,
                   no_shapes_checkbox, cbIndex, cbText, last_sel_node_type,
                   snapshot>>
    /\ update_display_nodes
    /\ ClearHistory
    /\ lastOp' = "search"

\* search_le.textChanged -> update_display_nodes
textChanged(text) ==
    /\ Visible
    /\ text # search_le
    /\ search_le' = text
    /\ UNCHANGED <<sceneObjs, ui_instance, constructed, hidden, scene_nodes,
                   no_shapes_checkbox, cbIndex, cbText, last_sel_node_type,
                   snapshot>>
    /\ update_display_nodes
    /\ ClearHistory
    /\ lastOp' = "search"

\* no_shapes_checkbox.clicked -> exclude_shapes_changed: update_display_nodes()
\* and then reload_scene_nodes(), which refreshes the list once more; the
\* first refresh is the one that drops a highlight
exclude_shapes_changed ==
    /\ Visible
    /\ no_shapes_checkbox' = ~no_shapes_checkbox
    /\ UNCHANGED <<sceneObjs, ui_instance, constructed, hidden, search_le,
                   cbIndex, cbText>>
    /\ reload_scene_nodes
    /\ IF no_shapes_checkbox'
       THEN beforeEnable' = display_nodes_lw /\ phase' = 1
       ELSE IF phase = 1
            THEN UNCHANGED beforeEnable /\ phase' = 2
            ELSE ClearHistory
    /\ lastOp' = "toggle"

\* QComboBox.setCurrentIndex(index): the edit text becomes the item's text,
\* and currentIndexChanged -> update_node_type fires when the index changes
setCurrentIndex(index) ==
    /\ cbIndex' = index
    /\ cbText' = itemText(index)
    /\ UNCHANGED <<sceneObjs, ui_instance, constructed, hidden, search_le,
                   no_shapes_checkbox>>
    /\ IF index # cbIndex
       THEN update_node_type(index)
       ELSE /\ UNCHANGED <<scene_nodes, snapshot, display_nodes_lw,
                           selectedItems, selection, last_sel_node_type>>
            /\ selectCalls' = 0
    /\ ClearHistory

\* the user picks an entry of nodetype_cb
currentIndexChanged(index) ==
    /\ Visible
    /\ setCurrentIndex(index)
    /\ lastOp' = IF index # cbIndex THEN "type" ELSE "retext"

\* clear_nodetype_btn.clicked
clear_nodetype ==
    /\ Visible
    /\ setCurrentIndex(0)
    /\ lastOp' = IF cbIndex # 0 THEN "clear" ELSE "retext"

\* the user types a type name in the editable nodetype_cb without choosing it
editTextChanged(text) ==
    /\ Visible
    /\ text # cbText
    /\ cbText' = text
    /\ UNCHANGED <<host, ui_instance, constructed, hidden, scene_nodes,
                   search_le, no_shapes_checkbox, cbIndex, last_sel_node_type,
                   display_nodes_lw, selectedItems, snapshot>>
    /\ selectCalls' = 0
    /\ ClearHistory
    /\ lastOp' = "edit"

\* reload_nodes_btn.clicked -> reload_scene_nodes
reload_clicked ==
    /\ Visible
    /\ UNCHANGED <<sceneObjs, ui_instance, constructed, hidden, search_le,
                   no_shapes_checkbox, cbIndex, cbText>>
    /\ reload_scene_nodes
    /\ ClearHistory
    /\ lastOp' = "reload"

\* item_selection_changed() that skips the cmds.objExists test
item_selection_changed_unchecked(rows) ==
    /\ selection' = RowTexts(1, rows)
    /\ selectCalls' = 1

\* item_selection_changed(), rows being the highlighted rows
item_selection_changed(rows) ==
    /\ selection' = SelectArg(rows)
    /\ selectCalls' = 1

\* the user changes the highlight: itemSelectionChanged
itemSelectionChanged(rows) ==
    /\ Visible
    /\ rows # selectedItems
    /\ selectedItems' = rows
    /\ item_selection_changed(rows)
    /\ UNCHANGED <<sceneObjs, ui_instance, constructed, hidden, scene_nodes,
                   search_le, no_shapes_checkbox, cbIndex, cbText,
                   last_sel_node_type, display_nodes_lw, snapshot>>
    /\ ClearHistory
    /\ lastOp' = "select"

Next ==
    \/ \E n \in NodeNames : CreateNode(n)
    \/ \E n \in NodeNames : DeleteNode(n)
    \/ show_ui
    \/ CloseDialog
    \/ \E text \in SearchSet : textChanged(text)
    \/ exclude_shapes_changed
    \/ \E index \in ComboIndexes : currentIndexChanged(index)
    \/ clear_nodetype
    \/ \E text \in Range(NODETYPES_DISPLAY) : editTextChanged(text)
    \/ reload_clicked
    \/ \E rows \in SUBSET (1..Len(display_nodes_lw)) : itemSelectionChanged(rows)

Spec == Init /\ [][Next]_vars

TypeOK ==
    /\ sceneObjs \subseteq NodeNames
    /\ Range(selection) \subseteq NodeNames
    /\ ui_instance \in {"None", "dialog"}
    /\ constructed \in 0..MaxConstructed
    /\ hidden \in BOOLEAN
    /\ Range(scene_nodes) \subseteq NodeNames
    /\ search_le \in SearchSet
    /\ no_shapes_checkbox \in BOOLEAN
    /\ cbIndex \in ComboIndexes
    /\ cbText \in Range(NODETYPES_DISPLAY)
    /\ last_sel_node_type \in Range(NODETYPES_DISPLAY)
    /\ Range(display_nodes_lw) \subseteq NodeNames
    /\ selectedItems \subseteq 1..Len(display_nodes_lw)
    /\ selectCalls \in 0..1
    /\ phase \in 0..2

(***************************************************************************)
(* Vocabulary of the properties.                                           *)
(***************************************************************************)
Pos(s, x) == CHOOSE k \in 1..Len(s) : s[k] = x

\* sub lists elements of s, each once, in the order s has them
\* (s has no duplicates: the host lists every node once)
IsSubsequence(sub, s) ==
    /\ \A k \in 1..Len(sub) : sub[k] \in Range(s)
    /\ \A i, j \in 1..Len(sub) : i < j => Pos(s, sub[i]) < Pos(s, sub[j])

\* name contains text, letter case ignored
ContainsIgnoringCase(name, text) ==
    \E off \in 0..(Len(name) - Len(text)) :
        \A k \in 1..Len(text) : LowerChar(name[off + k]) = LowerChar(text[k])

\* the names of the host's live shape nodes
LiveShapes == {n \in sceneObjs : NodeOf(n).shape}

\* shown is the search-filtered (and, when excluding, shape-free) view of W
IsFilteredView(shown, W, text, excluding) ==
    /\ IsSubsequence(shown, W)
    /\ \A n \in Range(W) :
           n \in Range(shown) <=>
               /\ ContainsIgnoringCase(n, text)
               /\ excluding => n \notin LiveShapes

FetchOps == {"construct", "type", "clear", "reload", "toggle"}

(***************************************************************************)
(* C1                                                                      *)
(***************************************************************************)
\* C1 as stated: the Working Set is always within the most recent full
\* snapshot, the most recent unfiltered list fetched from the host.
C1_WorkingSetWithinSnapshot ==
    ui_instance # "None" => Range(scene_nodes) \subseteq Range(snapshot)

\* C1 amended: right after every operation that fetches the Working Set
\* (construct, a type entry change, Clear node type, Reload, Toggle
\* exclude-shapes) the Working Set is within the host's node list of that
\* moment.
C1_WorkingSetWithinSceneAtFetch ==
    lastOp \in FetchOps => Range(scene_nodes) \subseteq sceneObjs

\* a typed fetch brought in a node created after the last unfiltered fetch
C1_Witness ==
    /\ lastOp = "type"
    /\ scene_nodes # <<>>
    /\ ~(Range(scene_nodes) \subseteq Range(snapshot))

(***************************************************************************)
(* C2                                                                      *)
(***************************************************************************)
\* C2: Toggle exclude-shapes leaves the Working Set as it was.
C2_ToggleKeepsWorkingSet ==
    [][lastOp' = "toggle" => scene_nodes' = scene_nodes]_vars

(***************************************************************************)
(* C3                                                                      *)
(***************************************************************************)
\* C3: after Set search text the Displayed Set is exactly the names of the
\* Working Set that contain the text, case ignored, in the Working Set's
\* order, less the host's live shape nodes when exclude-shapes is checked.
C3_SearchShowsMatches ==
    lastOp = "search" =>
        IsFilteredView(display_nodes_lw, scene_nodes, search_le,
                       no_shapes_checkbox)

\* W = [pCube1, pCube1Shape], text "SHAPE", exclusion off: [pCube1Shape]
C3_Witness ==
    /\ lastOp = "search"
    /\ scene_nodes = <<pCube1, pCube1Shape>>
    /\ search_le = <<"S", "H", "A", "P", "E">>
    /\ ~no_shapes_checkbox
    /\ display_nodes_lw = <<pCube1Shape>>

(***************************************************************************)
(* C4                                                                      *)
(***************************************************************************)
\* C4: Selection changed calls cmds.select once, and the host selection
\* becomes exactly the highlighted names that exist, each once.
C4_SelectsHighlightedExisting ==
    lastOp = "select" =>
        /\ selectCalls = 1
        /\ Range(selection) =
               {display_nodes_lw[r] : r \in selectedItems} \cap sceneObjs
        /\ Len(selection) = Cardinality(Range(selection))

\* two rows highlighted, one of them deleted from the scene meanwhile
C4_Witness ==
    /\ lastOp = "select"
    /\ Cardinality(selectedItems) = 2
    /\ Len(selection) = 1

(***************************************************************************)
(* C5                                                                      *)
(***************************************************************************)
\* C5: show_ui constructs at most one dialog, and every show_ui leaves that
\* one dialog on screen.
C5_SingleInstance ==
    /\ constructed <= 1
    /\ (ui_instance = "None") <=> (constructed = 0)
    /\ lastOp \in {"construct", "show", "raise"} =>
           constructed = 1 /\ ~hidden

\* the dialog was closed and show_ui showed it again
C5_Witness == lastOp = "show" /\ constructed = 1 /\ ~hidden

(***************************************************************************)
(* C6                                                                      *)
(***************************************************************************)
\* C6: enabling exclude-shapes takes exactly the live shape nodes out of the
\* Displayed Set, and the disable that follows brings back the list shown
\* before the enable.
C6_EnableDisableRoundTrip ==
    /\ (lastOp = "toggle" /\ phase = 1) =>
           display_nodes_lw =
               SelectSeq(beforeEnable, LAMBDA n : n \notin LiveShapes)
    /\ (lastOp = "toggle" /\ phase = 2) =>
           display_nodes_lw = beforeEnable

(***************************************************************************)
(* C7                                                                      *)
(***************************************************************************)
\* C7: after Reload the Working Set is the host's list of all nodes when the
\* combo box holds the sentinel, else the host's list of the nodes of the
\* type it holds, and the Displayed Set is the filtered view of it.
C7_ReloadAppliesCurrentType ==
    lastOp = "reload" =>
        /\ scene_nodes =
               InHostOrder(1, {n \in sceneObjs :
                                 cbText = NO_NODETYPE \/ NodeOf(n).type = cbText})
        /\ IsFilteredView(display_nodes_lw, scene_nodes, search_le,
                          no_shapes_checkbox)

\* a reload under a type typed in the combo box, with another entry chosen
C7_Witness ==
    /\ lastOp = "reload"
    /\ cbText = "transform"
    /\ cbIndex = 0
    /\ scene_nodes = <<pCube1>>
    /\ pCube1Shape \in sceneObjs

C9_ReopenKeepsInputs ==
    [][(ui_instance # "None" /\ hidden) =>
           UNCHANGED <<search_le, cbIndex, cbText, no_shapes_checkbox,
                       scene_nodes, display_nodes_lw, snapshot>>]_vars

\* reopened with inputs set, after the scene changed behind the dialog
C9_Witness ==
    /\ lastOp = "show"
    /\ search_le # <<>>
    /\ cbIndex # 0
    /\ no_shapes_checkbox
    /\ scene_nodes # LsType(cbText)

(***************************************************************************)
(* C10                                                                     *)
(***************************************************************************)
\* C10: between callbacks the Displayed Set is a subsequence of the Working
\* Set and each of its names contains the search text, case ignored.
C10_DisplayedWithinWorkingSet ==
    ui_instance # "None" =>
        /\ IsSubsequence(display_nodes_lw, scene_nodes)
        /\ \A k \in 1..Len(display_nodes_lw) :
               ContainsIgnoringCase(display_nodes_lw[k], search_le)

\* a text is searched, the list is a proper part of W, and W has gone stale
C10_Witness ==
    /\ ui_instance # "None"
    /\ search_le # <<>>
    /\ display_nodes_lw # <<>>
    /\ Len(display_nodes_lw) < Len(scene_nodes)
    /\ lastOp = "host"
    /\ ~(Range(scene_nodes) \subseteq sceneObjs)

====
